---- MODULE Spec2Model ----
(***************************************************************************)
(* Model of stac-lake's item-requirement engine: the two copies of the     *)
(* collection module (staclake/collection.py and the older                 *)
(* stac_lake/collection.py) and the schema registry (staclake/registry.py).*)
(*                                                                         *)
(* Python values are represented as follows.                               *)
(*   str            a sequence of tokens; the white-space characters " "   *)
(*                  and "\n" are always tokens of their own, decimal       *)
(*                  digits are one token each, any other token is a run of *)
(*                  text that neither starts nor ends with white space and *)
(*                  holds no line break                                    *)
(*   Optional[x]    <<>> for None, <<x>> for a value                       *)
(*   dict           a sequence of [key, val] pairs in insertion order      *)
(*   a call         Return(..) or Raise(exception class, argument)         *)
(***************************************************************************)
EXTENDS Integers, Sequences, FiniteSets, TLC

VARIABLES
    \* one call of validate_item_against_requirements
    pkg, item, requirements, idx, message, is_valid, pc, result, evaluated,
    \* one encode / decode call: the operation, its input and its outcomes
    op, arg, encoded, decoded,
    \* a CollectionSchemaRegistry: its _collection_schemas, the schemas added
    \* so far (history), the last to_dict() and the last from_dict()
    collection_schemas, added, serialized, loaded

varsValidate == <<pkg, item, requirements, idx, message, is_valid, pc, result, evaluated>>

varsCodec == <<op, arg, encoded, decoded>>

varsRegistry == <<collection_schemas, added, serialized, loaded>>

vars == <<varsValidate, varsCodec, varsRegistry>>

\* ------------------------------------------------------------------ bounds

\* Longest requirement list handed to the aggregator or held by a schema.
MaxReqs == 2

\* Most add_schema calls made on one registry.
MaxAdds == 3

\* ------------------------------------------------------------ Python values

None == <<>>

Some(x) == <<x>>

SP == " "

NL == "\n"

Whitespace == {SP, NL}

DigitTokens == <<"0", "1", "2", "3", "4", "5", "6", "7", "8", "9">>

IsDigit(t) == \E d \in 1..10 : DigitTokens[d] = t

DigitValue(t) == (CHOOSE d \in 1..10 : DigitTokens[d] = t) - 1

\* str(n) of a non-negative int: its decimal digits.
RECURSIVE IntDigits(_)
IntDigits(n) ==
    IF n < 10 THEN <<DigitTokens[n + 1]>>
    ELSE IntDigits(n \div 10) \o <<DigitTokens[(n % 10) + 1]>>

\* What an f-string writes for an Optional[int]: "None", or the decimal digits.
PyStr(optInt) ==
    IF optInt = None THEN <<"None">>
    ELSE IF optInt[1] < 0 THEN <<"-">> \o IntDigits(-optInt[1])
    ELSE IntDigits(optInt[1])

\* str.strip(): leading and trailing white space removed.
RECURSIVE LStrip(_)
LStrip(s) ==
    IF s # <<>> /\ Head(s) \in Whitespace THEN LStrip(Tail(s)) ELSE s

RECURSIVE RStrip(_)
RStrip(s) ==
    IF s # <<>> /\ s[Len(s)] \in Whitespace
    THEN RStrip(SubSeq(s, 1, Len(s) - 1))
    ELSE s

Strip(s) == LStrip(RStrip(s))

\* str.split(sep) for a one-token separator: the pieces between occurrences.
RECURSIVE Split(_, _)
Split(s, sep) ==
    IF \A k \in 1..Len(s) : s[k] # sep THEN <<s>>
    ELSE LET k == CHOOSE j \in 1..Len(s) :
                      s[j] = sep /\ \A h \in 1..(j - 1) : s[h] # sep
         IN  <<SubSeq(s, 1, k - 1)>> \o Split(SubSeq(s, k + 1, Len(s)), sep)

RECURSIVE DigitsValue(_)
DigitsValue(s) ==
    IF s = <<>> THEN 0
    ELSE 10 * DigitsValue(SubSeq(s, 1, Len(s) - 1)) + DigitValue(s[Len(s)])

\* int(text): surrounding white space is ignored; anything but a non-empty run
\* of decimal digits is a ValueError.
IntParses(s) ==
    LET t == Strip(s) IN t # <<>> /\ \A k \in 1..Len(t) : IsDigit(t[k])

IntOf(s) == DigitsValue(Strip(s))

\* Python truthiness of an Optional[int] / Optional[str]: None, 0 and "" are false.
TruthyInt(optInt) == optInt # None /\ optInt[1] # 0

TruthyStr(optStr) == optStr # None /\ optStr[1] # <<>>

\* ----------------------------------------------------------- call outcomes

Return(v, m) == [kind |-> "return", is_valid |-> v, message |-> m, exc |-> ""]

Raise(e) == [kind |-> "raise", is_valid |-> FALSE, message |-> None, exc |-> e]

\* ItemRequirementValidationResult(is_valid, message=None)
ItemRequirementValidationResult(v, m) == Return(v, m)

\* The outcome of a call that returns a value, or raises exception class e
\* with argument a.
Ok(v) == [kind |-> "return", val |-> v, exc |-> "", arg |-> ""]

Err(e, a) == [kind |-> "raise", val |-> None, exc |-> e, arg |-> a]

\* ------------------------------------------------------------------- dicts

Pair(k, v) == [key |-> k, val |-> v]

DictKeys(d) == {d[j].key : j \in 1..Len(d)}

\* list(d.keys()) / d.values(): insertion order.
DictKeyList(d) == [j \in 1..Len(d) |-> d[j].key]

DictValues(d) == [j \in 1..Len(d) |-> d[j].val]

\* d[k] for a key that is present (a missing key is a KeyError, decided by
\* the caller with DictKeys).
DictGet(d, k) == d[CHOOSE j \in 1..Len(d) : d[j].key = k].val

\* d[k] = v: replaces the value in place, or appends a new key.
DictSet(d, k, v) ==
    IF k \in DictKeys(d)
    THEN [j \in 1..Len(d) |-> IF d[j].key = k THEN Pair(k, v) ELSE d[j]]
    ELSE Append(d, Pair(k, v))

\* The dict without key k.
DictDel(d, k) == SelectSeq(d, LAMBDA e : e.key # k)

\* ------------------------------------------------------------- requirements

\* The two copies of the collection module.
Packages == {"staclake", "stac_lake"}

ProjectionRequirement(epsg) == [type |-> "ProjectionRequirement", epsg |-> epsg]

AssetRequirement(asset_name, media_type) ==
    [type |-> "AssetRequirement", asset_name |-> asset_name, media_type |-> media_type]

\* -------------------------------------------------------------------- items

\* What the code reads of a pystac.Item:
\*   ext     whether the item declares the projection extension
\*   epsg    the extension's epsg accessor (Optional[int])
\*   code    properties.get("proj:code") (Optional[str])
\*   assets  item.assets: asset name -> the asset's media_type (Optional[str])
Item(ext, epsg, code, assets) ==
    [ext |-> ext, epsg |-> epsg, code |-> code, assets |-> assets]

\* ProjectionExtension.ext(item, add_if_missing=False): pystac raises
\* ExtensionNotImplemented for an item that does not declare the extension.
ProjectionExtension_ext(it) ==
    IF it.ext THEN Return(TRUE, None) ELSE Raise("ExtensionNotImplemented")

\* staclake: ProjectionRequirement.validate_item_against_requirement
ProjectionRequirement_validate(req, it) ==
    IF ProjectionExtension_ext(it).kind = "raise" THEN ProjectionExtension_ext(it)
    ELSE IF TruthyInt(req.epsg) /\ it.epsg # req.epsg
    THEN ItemRequirementValidationResult(FALSE,
            Some(<<"Item EPSG is", SP>> \o PyStr(it.epsg)
                 \o <<",", SP, "expected", SP>> \o PyStr(req.epsg)))
    ELSE ItemRequirementValidationResult(TRUE, None)

\* stac_lake: the nested _get_epsg_code_int(item), as a call outcome whose
\* message field carries the Optional[int] it returns.
get_epsg_code_int(it) ==
    IF it.code = None THEN Return(TRUE, None)
    ELSE LET parts == Split(it.code[1], "EPSG:") IN
         IF Len(parts) < 2 THEN Raise("IndexError")
         ELSE IF ~IntParses(parts[2]) THEN Raise("ValueError")
         ELSE Return(TRUE, Some(IntOf(parts[2])))

\* stac_lake: ProjectionRequirement.validate_item_against_requirement
\* (`and` evaluates the item's code only when self.epsg is truthy)
ProjectionRequirement_validate_old(req, it) ==
    IF ~TruthyInt(req.epsg) THEN ItemRequirementValidationResult(TRUE, None)
    ELSE IF get_epsg_code_int(it).kind = "raise" THEN get_epsg_code_int(it)
    ELSE IF get_epsg_code_int(it).message # req.epsg
    THEN ItemRequirementValidationResult(FALSE,
            Some(<<"Item does not match required EPSG code.">>))
    ELSE ItemRequirementValidationResult(TRUE, None)

\* AssetRequirement.validate_item_against_requirement (the same in both copies)
AssetRequirement_validate(req, it) ==
    IF req.asset_name \notin DOMAIN it.assets
    THEN ItemRequirementValidationResult(FALSE,
            Some(<<"Item is missing required asset:", SP>> \o req.asset_name))
    ELSE IF TruthyStr(req.media_type) /\ it.assets[req.asset_name] # req.media_type
    THEN ItemRequirementValidationResult(FALSE,
            Some(<<"Asset '">> \o req.asset_name
                 \o <<"' does not match required media type:", SP>>
                 \o req.media_type[1]))
    ELSE ItemRequirementValidationResult(TRUE, None)

\* requirement.validate_item_against_requirement(item): dynamic dispatch on
\* the requirement's class, in package p.
validate_item_against_requirement(p, req, it) ==
    IF req.type = "ProjectionRequirement"
    THEN IF p = "staclake" THEN ProjectionRequirement_validate(req, it)
         ELSE ProjectionRequirement_validate_old(req, it)
    ELSE AssetRequirement_validate(req, it)

\* f"{result.message} \n": an f-string writes None as the text None.
FormatLine(optStr) ==
    (IF optStr = None THEN <<"None">> ELSE optStr[1]) \o <<SP, NL>>

\* ------------------------------------------------------------------- inputs

\* EPSG codes a requirement may ask for, and codes an item may carry.
RequiredEpsgs == {None, Some(0), Some(4326)}

ItemEpsgs == {None, Some(4326), Some(3786)}

\* "proj:code" property values: absent, two well-formed codes, a code of
\* another authority, and an EPSG prefix with nothing after it.
ItemCodes ==
    {None,
     Some(<<"EPSG:", "4", "3", "2", "6">>),
     Some(<<"EPSG:", "3", "7", "8", "6">>),
     Some(<<"ESRI:", "5", "4", "0", "0", "9">>),
     Some(<<"EPSG:">>)}

AssetNames == {<<"thumbnail">>, <<"a", NL, "b">>}

MediaTypes == {<<"image/png">>, <<"image/jpeg">>}

RequiredMediaTypes == {None, Some(<<>>), Some(<<"image/png">>)}

AssetMaps ==
    UNION {[names -> {Some(m) : m \in MediaTypes}] : names \in SUBSET AssetNames}

\* The fields a package does not read are left at their defaults.
ItemsOf(p) ==
    IF p = "staclake"
    THEN {Item(FALSE, None, None, a) : a \in AssetMaps}
         \cup {Item(TRUE, e, None, a) : e \in ItemEpsgs, a \in AssetMaps}
    ELSE {Item(FALSE, None, c, a) : c \in ItemCodes, a \in AssetMaps}

Requirements ==
    {ProjectionRequirement(e) : e \in RequiredEpsgs}
    \cup {AssetRequirement(<<"thumbnail">>, m) : m \in RequiredMediaTypes}
    \cup {AssetRequirement(<<"a", NL, "b">>, None), AssetRequirement(<<>>, None)}

RequirementLists == UNION {[1..n -> Requirements] : n \in 0..MaxReqs}

NoItem == Item(FALSE, None, None, <<>>)

NoResult == Return(TRUE, None)

\* ------------------------------------------- validate_item_against_requirements

InitValidate ==
    /\ pc = "idle"
    /\ pkg = "staclake"
    /\ item = NoItem
    /\ requirements = <<>>
    /\ idx = 1
    /\ message = <<>>
    /\ is_valid = TRUE
    /\ result = NoResult
    /\ evaluated = <<>>
    /\ op = "none" /\ arg = None /\ encoded = None /\ decoded = None
    /\ collection_schemas = <<>> /\ added = <<>> /\ serialized = None /\ loaded = None

\* Entry: message = "", is_valid = True, and the loop starts.
Call ==
    /\ pc = "idle"
    /\ \E p \in Packages : \E it \in ItemsOf(p) : \E reqs \in RequirementLists :
          /\ pkg' = p
          /\ item' = it
          /\ requirements' = reqs
    /\ idx' = 1
    /\ message' = <<>>
    /\ is_valid' = TRUE
    /\ evaluated' = <<>>
    /\ result' = NoResult
    /\ pc' = "loop"
    /\ UNCHANGED <<varsCodec, varsRegistry>>

\* Mutant of Accumulate: every result's message is written, also a passing one's.
AccumulateAllLines(valid, msg, res) ==
    [is_valid |-> valid /\ res.is_valid, message |-> msg \o FormatLine(res.message)]

\* Mutant of Accumulate: the verdict of the last requirement wins.
AccumulateLastWins(valid, msg, res) ==
    IF ~res.is_valid
    THEN [is_valid |-> FALSE, message |-> msg \o FormatLine(res.message)]
    ELSE [is_valid |-> TRUE, message |-> msg]

\* The loop body's effect on (is_valid, message) for one returned result.
Accumulate(valid, msg, res) ==
    IF ~res.is_valid
    THEN [is_valid |-> FALSE, message |-> msg \o FormatLine(res.message)]
    ELSE [is_valid |-> valid, message |-> msg]

\* Mutant of Iterate: the loop breaks at the first failing requirement.
IterateShortCircuit ==
    /\ pc = "loop"
    /\ idx <= Len(requirements)
    /\ LET res == validate_item_against_requirement(pkg, requirements[idx], item)
           acc == Accumulate(is_valid, message, res)
       IN  /\ evaluated' = Append(evaluated, res)
           /\ IF res.kind = "raise"
              THEN /\ pc' = "raised"
                   /\ result' = res
                   /\ UNCHANGED <<idx, message, is_valid>>
              ELSE /\ pc' = "loop"
                   /\ idx' = IF res.is_valid THEN idx + 1 ELSE Len(requirements) + 1
                   /\ is_valid' = acc.is_valid
                   /\ message' = acc.message
                   /\ UNCHANGED result
    /\ UNCHANGED <<pkg, item, requirements>>
    /\ UNCHANGED <<varsCodec, varsRegistry>>

\* One iteration of `for requirement in requirements`; an exception of the
\* requirement's check leaves the function.
Iterate ==
    /\ pc = "loop"
    /\ idx <= Len(requirements)
    /\ LET res == validate_item_against_requirement(pkg, requirements[idx], item)
           acc == Accumulate(is_valid, message, res)
       IN  /\ evaluated' = Append(evaluated, res)
           /\ IF res.kind = "raise"
              THEN /\ pc' = "raised"
                   /\ result' = res
                   /\ UNCHANGED <<idx, message, is_valid>>
              ELSE /\ pc' = "loop"
                   /\ idx' = idx + 1
                   /\ is_valid' = acc.is_valid
                   /\ message' = acc.message
                   /\ UNCHANGED result
    /\ UNCHANGED <<pkg, item, requirements>>
    /\ UNCHANGED <<varsCodec, varsRegistry>>

\* return ItemRequirementValidationResult(is_valid, message.strip())
Finish ==
    /\ pc = "loop"
    /\ idx > Len(requirements)
    /\ result' = ItemRequirementValidationResult(is_valid, Some(Strip(message)))
    /\ pc' = "returned"
    /\ UNCHANGED <<pkg, item, requirements, idx, message, is_valid, evaluated>>
    /\ UNCHANGED <<varsCodec, varsRegistry>>

NextValidate == Call \/ Iterate \/ Finish

SpecValidate == InitValidate /\ [][NextValidate]_vars

\* ---------------------------------------------- properties of the aggregator

\* What requirement k of the current call answers for the current item.
CheckOf(k) == validate_item_against_requirement(pkg, requirements[k], item)

\* The results of the failing requirements, in evaluation order.
FailedResults == SelectSeq(evaluated, LAMBDA r : r.kind = "return" /\ ~r.is_valid)

\* The lines of a text: none for the empty text, else the pieces between
\* line breaks.
Lines(s) == IF s = <<>> THEN <<>> ELSE Split(s, NL)

HasLineBreak(s) == \E k \in 1..Len(s) : s[k] = NL

\* The failing messages, each written as f"{message} \n", one after another.
RECURSIVE JoinFailed(_)
JoinFailed(rs) ==
    IF rs = <<>> THEN <<>> ELSE FormatLine(Head(rs).message) \o JoinFailed(Tail(rs))

\* C1: when validate_item_against_requirements returns, is_valid is the
\* conjunction of the requirements' check results (false if any check is
\* invalid, true otherwise); it raises only when a requirement's check raised;
\* for the empty requirement list it returns is_valid = True and message "".
C1_AggregateIsConjunction ==
    /\ pc = "returned" =>
          /\ result.kind = "return"
          /\ result.is_valid =
                (\A k \in 1..Len(requirements) :
                    CheckOf(k).kind = "return" /\ CheckOf(k).is_valid)
    /\ pc = "raised" => \E k \in 1..Len(requirements) : CheckOf(k).kind = "raise"
    /\ (pc \in {"returned", "raised"} /\ requirements = <<>>) =>
          /\ pc = "returned"
          /\ result.is_valid
          /\ result.message = Some(<<>>)

\* C1 witness: a returned call of two requirements where the first fails and
\* the second passes.
C1_Witness ==
    /\ pc = "returned"
    /\ Len(requirements) = 2
    /\ ~CheckOf(1).is_valid
    /\ CheckOf(2).is_valid
    /\ ~result.is_valid

\* C2 (as claimed): every requirement is evaluated even after a failure, and
\* the aggregate message holds exactly one line per failing requirement, in
\* input order, nothing from passing requirements, no trailing white space.
C2_OneLinePerFailure ==
    pc = "returned" =>
       /\ Len(evaluated) = Len(requirements)
       /\ Len(Lines(result.message[1])) = Len(FailedResults)
       /\ \A k \in 1..Len(FailedResults) :
             k <= Len(Lines(result.message[1])) =>
                Strip(Lines(result.message[1])[k]) = Strip(FailedResults[k].message[1])
       /\ RStrip(result.message[1]) = result.message[1]

\* C2 (amended): every requirement is evaluated even after a failure; the
\* aggregate message is the failing requirements' messages in input order,
\* each written with " \n" after it, the whole stripped, so passing
\* requirements add nothing and no white space trails; it holds exactly one
\* line per failing requirement whenever no failing message itself contains
\* a line break.
C2_FailureLinesInOrder ==
    pc = "returned" =>
       /\ Len(evaluated) = Len(requirements)
       /\ \A k \in 1..Len(requirements) : evaluated[k] = CheckOf(k)
       /\ result.message = Some(Strip(JoinFailed(FailedResults)))
       /\ RStrip(result.message[1]) = result.message[1]
       /\ (\A k \in 1..Len(FailedResults) : ~HasLineBreak(FailedResults[k].message[1])) =>
             /\ Len(Lines(result.message[1])) = Len(FailedResults)
             /\ \A k \in 1..Len(FailedResults) :
                   Strip(Lines(result.message[1])[k])
                      = Strip(FailedResults[k].message[1])

\* C2 witness: two failing requirements, both evaluated, two lines returned.
C2_Witness ==
    /\ pc = "returned"
    /\ Len(requirements) = 2
    /\ Len(FailedResults) = 2
    /\ FailedResults[1].message # FailedResults[2].message
    /\ Len(Lines(result.message[1])) = 2

\* C9 (as claimed): a requirement's check never raises, whatever the item
\* lacks: every evaluated check returned a result.
C9_CheckNeverRaises ==
    \A k \in 1..Len(evaluated) : evaluated[k].kind = "return"

\* The projection code the package reads from the item, None when it has none.
ItemProjectionCode ==
    IF pkg = "staclake" THEN (IF item.ext THEN item.epsg ELSE None)
    ELSE IF get_epsg_code_int(item).kind = "return" THEN get_epsg_code_int(item).message
    ELSE None

\* C10 (as claimed): a returned ProjectionRequirement check is valid for every
\* item when epsg is None, and when epsg is set to any integer it is valid
\* exactly when the item's projection code is present and equal to epsg.
C10_ProjectionCheck ==
    \A k \in 1..Len(evaluated) :
       (requirements[k].type = "ProjectionRequirement" /\ evaluated[k].kind = "return") =>
          evaluated[k].is_valid =
             (requirements[k].epsg = None \/ ItemProjectionCode = requirements[k].epsg)

\* C11 (as claimed): an AssetRequirement check is invalid, with the message
\* "missing required asset: <name>", when the item has no asset of that name;
\* with the asset present and media_type set to any string it is invalid
\* exactly when the asset's media type differs; with the asset present and
\* media_type unset it is valid.
C11_AssetCheck ==
    \A k \in 1..Len(evaluated) :
       requirements[k].type = "AssetRequirement" =>
          /\ evaluated[k].kind = "return"
          /\ IF requirements[k].asset_name \notin DOMAIN item.assets
             THEN /\ ~evaluated[k].is_valid
                  /\ evaluated[k].message =
                        Some(<<"Item is missing required asset:", SP>>
                             \o requirements[k].asset_name)
             ELSE IF requirements[k].media_type # None
             THEN evaluated[k].is_valid =
                     (item.assets[requirements[k].asset_name] = requirements[k].media_type)
             ELSE evaluated[k].is_valid

\* is_valid and message agree: a valid result has no message or an empty one,
\* an invalid one a non-empty string.
MessageAgrees(res) ==
    IF res.is_valid THEN res.message \in {None, Some(<<>>)}
    ELSE res.message # None /\ res.message[1] # <<>>

\* C12: every ItemRequirementValidationResult returned by a requirement's
\* check or by the aggregator has an empty or absent message when is_valid is
\* true and a non-empty string message when is_valid is false.
C12_MessageMatchesVerdict ==
    /\ \A k \in 1..Len(evaluated) :
          evaluated[k].kind = "return" => MessageAgrees(evaluated[k])
    /\ pc = "returned" => MessageAgrees(result)

\* C12 witness: a returned call in which one check passed without a message
\* and another failed with one, the aggregate being invalid with a message.
C12_Witness ==
    /\ pc = "returned"
    /\ Len(evaluated) = 2
    /\ evaluated[1].is_valid
    /\ evaluated[1].message = None
    /\ ~evaluated[2].is_valid
    /\ ~result.is_valid
    /\ result.message = Some(Strip(evaluated[2].message[1]))
    /\ result.message[1] # <<>>

\* ------------------------------------------------- requirement (de)coding

\* @register_requirement: REQUIREMENT_REGISTRY[cls.__name__] = cls
register_requirement(registry, cls) == DictSet(registry, cls, cls)

\* The registry once the module is imported: the decorators ran in source order.
REQUIREMENT_REGISTRY ==
    register_requirement(register_requirement(<<>>, "ProjectionRequirement"),
                         "AssetRequirement")

\* BaseItemRequirement.to_dict / from_dict
BaseItemRequirement_to_dict(r) == Err("NotImplementedError", "")

BaseItemRequirement_from_dict(data) == Err("NotImplementedError", "")

\* ProjectionRequirement.to_dict (both copies)
ProjectionRequirement_to_dict(r) ==
    Ok(<<Pair("type", r.type), Pair("epsg", r.epsg)>>)

\* staclake: ProjectionRequirement.from_dict reads data["epsg"]
ProjectionRequirement_from_dict(data) ==
    IF "epsg" \notin DictKeys(data) THEN Err("KeyError", "epsg")
    ELSE Ok(ProjectionRequirement(DictGet(data, "epsg")))

\* stac_lake: ProjectionRequirement.from_dict reads data.get("epsg")
ProjectionRequirement_from_dict_old(data) ==
    Ok(ProjectionRequirement(
          IF "epsg" \in DictKeys(data) THEN DictGet(data, "epsg") ELSE None))

\* staclake: AssetRequirement.to_dict
AssetRequirement_to_dict(r) ==
    Ok(<<Pair("type", r.type), Pair("asset_name", r.asset_name),
         Pair("media_type", r.media_type)>>)

\* staclake: AssetRequirement.from_dict
AssetRequirement_from_dict(data) ==
    IF "asset_name" \notin DictKeys(data) THEN Err("KeyError", "asset_name")
    ELSE IF "media_type" \notin DictKeys(data) THEN Err("KeyError", "media_type")
    ELSE Ok(AssetRequirement(DictGet(data, "asset_name"), DictGet(data, "media_type")))

\* req.to_dict() in package p; stac_lake's AssetRequirement defines neither
\* to_dict nor from_dict and inherits BaseItemRequirement's.
to_dict(p, r) ==
    IF r.type = "ProjectionRequirement" THEN ProjectionRequirement_to_dict(r)
    ELSE IF p = "staclake" THEN AssetRequirement_to_dict(r)
    ELSE BaseItemRequirement_to_dict(r)

\* cls.from_dict(data) in package p
from_dict(p, cls, data) ==
    IF cls = "ProjectionRequirement"
    THEN IF p = "staclake" THEN ProjectionRequirement_from_dict(data)
         ELSE ProjectionRequirement_from_dict_old(data)
    ELSE IF p = "staclake" THEN AssetRequirement_from_dict(data)
    ELSE BaseItemRequirement_from_dict(data)

\* Mutant of decode_requirement: an unregistered tag falls back to
\* ProjectionRequirement, as REQUIREMENT_REGISTRY.get(tag, default) would.
decode_requirement_fallback(p, requirement) ==
    IF "type" \notin DictKeys(requirement) THEN Err("KeyError", "type")
    ELSE IF DictGet(requirement, "type") \notin DictKeys(REQUIREMENT_REGISTRY)
    THEN from_dict(p, "ProjectionRequirement", requirement)
    ELSE from_dict(p, DictGet(REQUIREMENT_REGISTRY, DictGet(requirement, "type")),
                   requirement)

\* REQUIREMENT_REGISTRY[requirement["type"]].from_dict(requirement)
decode_requirement(p, requirement) ==
    IF "type" \notin DictKeys(requirement) THEN Err("KeyError", "type")
    ELSE IF DictGet(requirement, "type") \notin DictKeys(REQUIREMENT_REGISTRY)
    THEN Err("KeyError", DictGet(requirement, "type"))
    ELSE from_dict(p, DictGet(REQUIREMENT_REGISTRY, DictGet(requirement, "type")),
                   requirement)

\* [req.to_dict() for req in self.item_requirements]: the first exception
\* leaves the comprehension.
RECURSIVE encode_requirements(_, _)
encode_requirements(p, reqs) ==
    IF reqs = <<>> THEN Ok(<<>>)
    ELSE LET h == to_dict(p, Head(reqs)) IN
         IF h.kind = "raise" THEN h
         ELSE LET t == encode_requirements(p, Tail(reqs)) IN
              IF t.kind = "raise" THEN t ELSE Ok(<<h.val>> \o t.val)

\* [REQUIREMENT_REGISTRY[...].from_dict(requirement) for requirement in ...]
RECURSIVE decode_requirements(_, _)
decode_requirements(p, dicts) ==
    IF dicts = <<>> THEN Ok(<<>>)
    ELSE LET h == decode_requirement(p, Head(dicts)) IN
         IF h.kind = "raise" THEN h
         ELSE LET t == decode_requirements(p, Tail(dicts)) IN
              IF t.kind = "raise" THEN t ELSE Ok(<<h.val>> \o t.val)

\* ------------------------------------------------------- CollectionSchema

\* A pystac.Collection, of which the code reads the id only.
StacCollection(id) == [id |-> id]

\* pystac.Collection.to_dict / from_dict: the id is kept.
StacCollection_to_dict(c) == <<Pair("type", "Collection"), Pair("id", c.id)>>

StacCollection_from_dict(d) == StacCollection(DictGet(d, "id"))

CollectionSchema(stac_collection, item_requirements) ==
    [stac_collection |-> stac_collection, item_requirements |-> item_requirements]

\* CollectionSchema.get_id
get_id(schema) == schema.stac_collection.id

\* CollectionSchema.to_dict (stac_lake: Collection.to_dict)
CollectionSchema_to_dict(p, schema) ==
    LET reqs == encode_requirements(p, schema.item_requirements) IN
    IF reqs.kind = "raise" THEN reqs
    ELSE Ok(<<Pair("stac_collection", StacCollection_to_dict(schema.stac_collection)),
              Pair("item_requirements", reqs.val)>>)

\* staclake: CollectionSchema.from_dict, a classmethod
CollectionSchema_from_dict_new(collection_data) ==
    IF "stac_collection" \notin DictKeys(collection_data)
    THEN Err("KeyError", "stac_collection")
    ELSE LET reqs == decode_requirements("staclake",
                        IF "item_requirements" \in DictKeys(collection_data)
                        THEN DictGet(collection_data, "item_requirements")
                        ELSE <<>>)
         IN  IF reqs.kind = "raise" THEN reqs
             ELSE Ok(CollectionSchema(
                        StacCollection_from_dict(DictGet(collection_data, "stac_collection")),
                        reqs.val))

\* stac_lake: Collection.from_dict is declared `def from_dict(cls, data)` with
\* no @classmethod, so Collection.from_dict(d) binds d to cls and has no data.
Collection_from_dict_old(collection_data) ==
    Err("TypeError", "from_dict() missing 1 required positional argument: 'data'")

CollectionSchema_from_dict(p, collection_data) ==
    IF p = "staclake" THEN CollectionSchema_from_dict_new(collection_data)
    ELSE Collection_from_dict_old(collection_data)

\* ----------------------------------------------------- encode / decode calls

CollectionIds == {"c1", "c2"}

Schemas ==
    {CollectionSchema(StacCollection(id), reqs) :
        id \in CollectionIds, reqs \in RequirementLists}

\* Ways a stored schema dictionary may be damaged: a requirement entry with a
\* type tag nobody registered, with no type tag, or with its last field
\* missing; the schema without its collection or without its requirement list.
RequirementDamages == {"unknown_type", "no_type", "missing_field"}

SchemaDamages == {"none", "no_collection", "no_requirements"}

DamagedRequirement(rd, kind) ==
    IF kind = "unknown_type" THEN DictSet(rd, "type", "UnknownKind")
    ELSE IF kind = "no_type" THEN DictDel(rd, "type")
    ELSE DictDel(rd, rd[Len(rd)].key)

\* Schema dictionary d with damage `kind`, at requirement entry pos when the
\* damage is to a requirement.
Damaged(d, kind, pos) ==
    IF kind = "none" THEN d
    ELSE IF kind = "no_collection" THEN DictDel(d, "stac_collection")
    ELSE IF kind = "no_requirements" THEN DictDel(d, "item_requirements")
    ELSE DictSet(d, "item_requirements",
            [j \in 1..Len(DictGet(d, "item_requirements")) |->
                IF j = pos
                THEN DamagedRequirement(DictGet(d, "item_requirements")[j], kind)
                ELSE DictGet(d, "item_requirements")[j]])

InitCodec ==
    /\ op = "none" /\ arg = None /\ encoded = None /\ decoded = None
    /\ pc = "idle" /\ pkg = "staclake" /\ item = NoItem /\ requirements = <<>>
    /\ idx = 1 /\ message = <<>> /\ is_valid = TRUE /\ result = NoResult
    /\ evaluated = <<>>
    /\ collection_schemas = <<>> /\ added = <<>> /\ serialized = None /\ loaded = None

\* r.to_dict(), then the registry's decode of the result; an exception of
\* to_dict leaves the whole expression.
RequirementRoundTrip ==
    /\ op = "none"
    /\ \E p \in Packages : \E r \in Requirements :
          LET enc == to_dict(p, r) IN
          /\ op' = "requirement"
          /\ arg' = [pkg |-> p, value |-> r]
          /\ encoded' = enc
          /\ decoded' = IF enc.kind = "raise" THEN enc
                        ELSE decode_requirement(p, enc.val)
    /\ UNCHANGED <<varsValidate, varsRegistry>>

\* CollectionSchema.from_dict(s.to_dict())
SchemaRoundTrip ==
    /\ op = "none"
    /\ \E p \in Packages : \E s \in Schemas :
          LET enc == CollectionSchema_to_dict(p, s) IN
          /\ op' = "schema"
          /\ arg' = [pkg |-> p, value |-> s]
          /\ encoded' = enc
          /\ decoded' = IF enc.kind = "raise" THEN enc
                        ELSE CollectionSchema_from_dict(p, enc.val)
    /\ UNCHANGED <<varsValidate, varsRegistry>>

\* CollectionSchema.from_dict of a stored dictionary, intact or damaged.
SchemaDecode ==
    /\ op = "none"
    /\ \E p \in Packages : \E s \in Schemas :
       \E kind \in SchemaDamages \cup RequirementDamages :
       \E pos \in 0..Len(s.item_requirements) :
          /\ (pos = 0) = (kind \in SchemaDamages)
          /\ LET data == Damaged(CollectionSchema_to_dict("staclake", s).val, kind, pos) IN
             /\ op' = "decode"
             /\ arg' = [pkg |-> p, value |-> s, kind |-> kind, pos |-> pos, data |-> data]
             /\ encoded' = None
             /\ decoded' = CollectionSchema_from_dict(p, data)
    /\ UNCHANGED <<varsValidate, varsRegistry>>

NextCodec == RequirementRoundTrip \/ SchemaRoundTrip \/ SchemaDecode

SpecCodec == InitCodec /\ [][NextCodec]_vars

\* --------------------------------------------------- properties of the codec

C6_RequirementRoundTrip ==
    op = "requirement" =>
       /\ encoded.kind = "return"
       /\ DictGet(encoded.val, "type") \in DictKeys(REQUIREMENT_REGISTRY)
       /\ DictGet(REQUIREMENT_REGISTRY, DictGet(encoded.val, "type")) = arg.value.type
       /\ decoded.kind = "return"
       /\ decoded.val.type = arg.value.type
       /\ decoded.val = arg.value

\* C7 (as claimed): from_dict(s.to_dict()) returns a schema with the
\* identifier of s and the same ordered requirements: same length, same
\* variant and equal fields at each position.
C7_SchemaRoundTrip ==
    op = "schema" =>
       /\ decoded.kind = "return"
       /\ get_id(decoded.val) = get_id(arg.value)
       /\ Len(decoded.val.item_requirements) = Len(arg.value.item_requirements)
       /\ \A k \in 1..Len(arg.value.item_requirements) :
             /\ decoded.val.item_requirements[k].type = arg.value.item_requirements[k].type
             /\ decoded.val.item_requirements[k] = arg.value.item_requirements[k]

\* ------------------------------------------------ CollectionSchemaRegistry

\* Mutant of add_schema: an identifier already present keeps its schema.
add_schema_first_wins(schemas, collection_schema) ==
    IF get_id(collection_schema) \in DictKeys(schemas) THEN schemas
    ELSE Append(schemas, Pair(get_id(collection_schema), collection_schema))

\* add_schema: self._collection_schemas[collection_schema.get_id()] = collection_schema
add_schema(schemas, collection_schema) ==
    DictSet(schemas, get_id(collection_schema), collection_schema)

\* get_schema: self._collection_schemas.get(collection_id), None when unknown
get_schema(schemas, collection_id) ==
    IF collection_id \in DictKeys(schemas) THEN Some(DictGet(schemas, collection_id))
    ELSE None

\* list_schemas: list(self._collection_schemas.keys())
list_schemas(schemas) == DictKeyList(schemas)

\* {collection_id: collection_schema.to_dict() for ... in items()}
RECURSIVE encode_schemas(_)
encode_schemas(schemas) ==
    IF schemas = <<>> THEN Ok(<<>>)
    ELSE LET h == CollectionSchema_to_dict("staclake", Head(schemas).val) IN
         IF h.kind = "raise" THEN h
         ELSE LET t == encode_schemas(Tail(schemas)) IN
              IF t.kind = "raise" THEN t
              ELSE Ok(<<Pair(Head(schemas).key, h.val)>> \o t.val)

\* Mutant of to_dict: only the first schema is written.
CollectionSchemaRegistry_to_dict_first(schemas) ==
    LET inner == encode_schemas(IF schemas = <<>> THEN <<>> ELSE <<Head(schemas)>>) IN
    IF inner.kind = "raise" THEN inner ELSE Ok(<<Pair("schemas", inner.val)>>)

\* CollectionSchemaRegistry.to_dict
CollectionSchemaRegistry_to_dict(schemas) ==
    LET inner == encode_schemas(schemas) IN
    IF inner.kind = "raise" THEN inner ELSE Ok(<<Pair("schemas", inner.val)>>)

\* for schema in ...values(): registry_cls.add_schema(CollectionSchema.from_dict(schema))
\* The first exception leaves from_dict; registry_cls is local to it.
RECURSIVE load_schemas(_, _)
load_schemas(registry_cls, values) ==
    IF values = <<>> THEN Ok(registry_cls)
    ELSE LET h == CollectionSchema_from_dict("staclake", Head(values)) IN
         IF h.kind = "raise" THEN h
         ELSE load_schemas(add_schema(registry_cls, h.val), Tail(values))

\* The same loop, skipping the entries that fail to decode.
RECURSIVE load_schemas_skipping(_, _)
load_schemas_skipping(registry_cls, values) ==
    IF values = <<>> THEN Ok(registry_cls)
    ELSE LET h == CollectionSchema_from_dict("staclake", Head(values)) IN
         IF h.kind = "raise" THEN load_schemas_skipping(registry_cls, Tail(values))
         ELSE load_schemas_skipping(add_schema(registry_cls, h.val), Tail(values))

\* Mutant of from_dict: a schema that fails to decode is skipped.
CollectionSchemaRegistry_from_dict_skipping(registry_data) ==
    load_schemas_skipping(<<>>,
        IF "schemas" \in DictKeys(registry_data)
        THEN DictValues(DictGet(registry_data, "schemas"))
        ELSE <<>>)

\* CollectionSchemaRegistry.from_dict
CollectionSchemaRegistry_from_dict(registry_data) ==
    load_schemas(<<>>,
        IF "schemas" \in DictKeys(registry_data)
        THEN DictValues(DictGet(registry_data, "schemas"))
        ELSE <<>>)

\* The schemas registered in the runs: two identifiers, three requirement lists.
RegistrySchemas ==
    {CollectionSchema(StacCollection(id), reqs) :
        id \in CollectionIds,
        reqs \in {<<>>,
                  <<ProjectionRequirement(Some(4326))>>,
                  <<AssetRequirement(<<"thumbnail">>, Some(<<"image/png">>)),
                    ProjectionRequirement(None)>>}}

\* Damage to one entry of a stored registry: its collection missing, or its
\* first requirement with an unregistered type tag or a missing field.
EntryDamages == {"no_collection", "unknown_type", "missing_field"}

\* Registry dictionary d with entry `bad` (0: none) damaged.
DamagedRegistry(d, bad, kind) ==
    IF bad = 0 THEN d
    ELSE DictSet(d, "schemas",
            [j \in 1..Len(DictGet(d, "schemas")) |->
                IF j = bad
                THEN Pair(DictGet(d, "schemas")[j].key,
                          Damaged(DictGet(d, "schemas")[j].val, kind, 1))
                ELSE DictGet(d, "schemas")[j]])

InitRegistry ==
    /\ collection_schemas = <<>> /\ added = <<>> /\ serialized = None /\ loaded = None
    /\ op = "none" /\ arg = None /\ encoded = None /\ decoded = None
    /\ pc = "idle" /\ pkg = "staclake" /\ item = NoItem /\ requirements = <<>>
    /\ idx = 1 /\ message = <<>> /\ is_valid = TRUE /\ result = NoResult
    /\ evaluated = <<>>

\* registry.add_schema(s)
AddSchema ==
    /\ Len(added) < MaxAdds
    /\ \E s \in RegistrySchemas :
          /\ collection_schemas' = add_schema(collection_schemas, s)
          /\ added' = Append(added, s)
    /\ UNCHANGED <<serialized, loaded>>
    /\ UNCHANGED <<varsValidate, varsCodec>>

\* registry.to_dict(); `of` remembers the registry it was taken of.
ToDict ==
    /\ serialized' = Some([data |-> CollectionSchemaRegistry_to_dict(collection_schemas).val,
                           of |-> collection_schemas])
    /\ UNCHANGED <<collection_schemas, added, loaded>>
    /\ UNCHANGED <<varsValidate, varsCodec>>

\* CollectionSchemaRegistry.from_dict of the stored dictionary, intact or with
\* one entry damaged.
FromDict ==
    /\ serialized # None
    /\ \E bad \in 0..Len(serialized[1].of) : \E kind \in EntryDamages :
          /\ IF bad = 0 THEN kind = "no_collection"
             ELSE kind = "no_collection"
                  \/ serialized[1].of[bad].val.item_requirements # <<>>
          /\ LET data == DamagedRegistry(serialized[1].data, bad, kind) IN
             loaded' = Some([data |-> data, bad |-> bad, kind |-> kind,
                             of |-> serialized[1].of,
                             outcome |-> CollectionSchemaRegistry_from_dict(data)])
    /\ UNCHANGED <<collection_schemas, added, serialized>>
    /\ UNCHANGED <<varsValidate, varsCodec>>

NextRegistry == AddSchema \/ ToDict \/ FromDict

SpecRegistry == InitRegistry /\ [][NextRegistry]_vars

\* ------------------------------------------------ properties of the registry

\* The schema most recently added under an identifier, None when there is none.
RECURSIVE LastAdded(_, _)
LastAdded(history, collection_id) ==
    IF history = <<>> THEN None
    ELSE IF get_id(history[Len(history)]) = collection_id
    THEN Some(history[Len(history)])
    ELSE LastAdded(SubSeq(history, 1, Len(history) - 1), collection_id)

\* C3: after any sequence of add_schema calls the registry holds at most one
\* schema per identifier, filed under its own identifier, and get_schema(id)
\* is the schema most recently added with that identifier (None when none
\* was), so an add under one identifier leaves every other entry as it was.
C3_LastWriteWins ==
    /\ \A i, j \in 1..Len(collection_schemas) :
          collection_schemas[i].key = collection_schemas[j].key => i = j
    /\ \A j \in 1..Len(collection_schemas) :
          get_id(collection_schemas[j].val) = collection_schemas[j].key
    /\ \A id \in CollectionIds :
          get_schema(collection_schemas, id) = LastAdded(added, id)

\* C3 witness: an identifier added twice with different schemas, another
\* identifier added in between.
C3_Witness ==
    /\ Len(added) = 3
    /\ get_id(added[1]) = get_id(added[3])
    /\ added[1] # added[3]
    /\ get_id(added[2]) # get_id(added[1])
    /\ get_schema(collection_schemas, get_id(added[3])) = Some(added[3])
    /\ get_schema(collection_schemas, get_id(added[2])) = Some(added[2])

\* C4: CollectionSchemaRegistry.from_dict is all or nothing: with one entry
\* damaged, at whatever position, it raises and returns no registry; with
\* every entry intact it returns a registry holding every stored schema.
C4_FromDictAllOrNothing ==
    loaded # None =>
       /\ loaded[1].bad # 0 =>
             /\ loaded[1].outcome.kind = "raise"
             /\ loaded[1].outcome.val = None
       /\ loaded[1].bad = 0 =>
             /\ loaded[1].outcome.kind = "return"
             /\ Len(loaded[1].outcome.val) = Len(DictGet(loaded[1].data, "schemas"))
             /\ \A j \in 1..Len(loaded[1].of) :
                   get_schema(loaded[1].outcome.val, loaded[1].of[j].key)
                      = Some(loaded[1].of[j].val)

\* C4 witness: the second of two entries is damaged, after one that decodes.
C4_Witness ==
    /\ loaded # None
    /\ Len(loaded[1].of) = 2
    /\ loaded[1].bad = 2
    /\ loaded[1].outcome.kind = "raise"

\* C8: for a registry g built by add_schema calls, from_dict(g.to_dict())
\* lists exactly the identifiers g lists, and get_schema on each of them
\* returns a schema with that identifier.
C8_RegistryRoundTripIds ==
    (loaded # None /\ loaded[1].bad = 0) =>
       /\ loaded[1].outcome.kind = "return"
       /\ {list_schemas(loaded[1].outcome.val)[j] :
              j \in 1..Len(list_schemas(loaded[1].outcome.val))}
             = {list_schemas(loaded[1].of)[j] : j \in 1..Len(list_schemas(loaded[1].of))}
       /\ \A j \in 1..Len(list_schemas(loaded[1].of)) :
             LET id == list_schemas(loaded[1].of)[j] IN
             /\ get_schema(loaded[1].outcome.val, id) # None
             /\ get_id(get_schema(loaded[1].outcome.val, id)[1]) = id

\* C8 witness: a registry of two identifiers, one of them replaced once, read
\* back whole.
C8_Witness ==
    /\ loaded # None
    /\ loaded[1].bad = 0
    /\ Len(added) = 3
    /\ loaded[1].of = collection_schemas
    /\ Len(list_schemas(collection_schemas)) = 2
    /\ loaded[1].outcome.kind = "return"
    /\ Len(list_schemas(loaded[1].outcome.val)) = 2

====
